---- MODULE Spec2Model ----
(***************************************************************************)
(* Model of the documentation navigation generator:                        *)
(*   generate_nav_and_index.py  (scan_docs, generate_index_md,             *)
(*                               update_mkdocs_yml, main)                  *)
(*   update_nav.py              (build_nav, update_mkdocs_yaml)            *)
(*                                                                         *)
(* Strings are sequences of code points, so that sorting, prefix tests,    *)
(* lower-casing and title-casing are computed, not assumed.                *)
(* The docs tree is a pair of sets of paths (a path is a sequence of raw   *)
(* entry names below docs/).                                               *)
(***************************************************************************)
EXTENDS Integers, Sequences, FiniteSets, TLC

VARIABLES
    docsExists,     \* docs/ exists
    fsFiles,        \* paths of the regular files below docs/
    fsDirs,         \* paths of the directories below docs/
    unreadable,     \* directories whose listing raises (permissions)
    cfg,            \* content of mkdocs.yml
    idx,            \* content of docs/index.md
    prog,           \* script being run: "gen" | "upd" | "none"
    pc,             \* position inside the running script
    err,            \* stage at which the run raised, "" if it did not
    nav,            \* local: nav list built by the scan
    index_links,    \* local: index-link list built by the scan
    config,         \* local: the loaded configuration document
    index_content,  \* local: the rendered index document
    levelArg,       \* the level argument of generate_index_md
    runs,           \* number of runs started
    okRuns,         \* number of runs of main() completed without raising
    cfg0,           \* history: content of mkdocs.yml when the run started
    idx0,           \* history: content of docs/index.md when the run started
    navOk,          \* history: nav under 'nav' after the first complete main()
    idxOk           \* history: index document after the first complete main()

vars == <<docsExists, fsFiles, fsDirs, unreadable, cfg, idx, prog, pc, err,
          nav, index_links, config, index_content, levelArg, runs, okRuns, cfg0, idx0, navOk, idxOk>>

----------------------------------------------------------------------------
(* Bounds *)

MaxEntries == 3      \* entries of a docs tree the scans are applied to
MaxRunEntries == 2   \* entries of the docs tree the scripts are run on
MaxRuns == 2         \* runs of the scripts in one behaviour

----------------------------------------------------------------------------
(* Code-point strings *)

S_md == <<46, 109, 100>>                              \* ".md"
S_index_md == <<105, 110, 100, 101, 120, 46, 109, 100>>   \* "index.md"
S_doc_title == <<35, 32, 68, 111, 99, 117, 109, 101, 110, 116, 97, 116, 105,
                 111, 110, 32, 73, 110, 100, 101, 120>> \* "# Documentation Index"

\* Raw entry names the docs tree is built from.
FileNames == { <<97, 46, 109, 100>>,                      \* "a.md"
               <<66, 46, 109, 100>>,                      \* "B.md"
               <<95, 100, 46, 109, 100>>,                 \* "_d.md"
               S_index_md,                                \* "index.md"
               <<73, 78, 68, 69, 88, 46, 109, 100>>,      \* "INDEX.md"
               <<110, 46, 116, 120, 116>> }               \* "n.txt"
DirNames == { <<103>>,                                    \* "g"
              <<84, 45, 117>>,                            \* "T-u"
              <<46, 104>> }                               \* ".h"

IsUpper(c) == c >= 65 /\ c <= 90
IsLower(c) == c >= 97 /\ c <= 122
IsCased(c) == IsUpper(c) \/ IsLower(c)

\* str.startswith
StartsWith(s, p) == Len(s) >= Len(p) /\ SubSeq(s, 1, Len(p)) = p
\* str.endswith
EndsWith(s, p) ==
    Len(s) >= Len(p) /\ SubSeq(s, Len(s) - Len(p) + 1, Len(s)) = p
\* str.lower
Lower(s) == [i \in 1..Len(s) |-> IF IsUpper(s[i]) THEN s[i] + 32 ELSE s[i]]
\* str.replace for one-character patterns
Replace(s, from, to) == [i \in 1..Len(s) |-> IF s[i] = from THEN to ELSE s[i]]
\* str.title: a cased character is upper-cased when the previous character is
\* uncased, lower-cased otherwise
Title(s) ==
    [i \in 1..Len(s) |->
        LET prevCased == i > 1 /\ IsCased(s[i - 1]) IN
        IF IsLower(s[i]) /\ ~prevCased THEN s[i] - 32
        ELSE IF IsUpper(s[i]) /\ prevCased THEN s[i] + 32
        ELSE s[i]]

\* os.path.splitext(name)[0]: cut at the last dot unless only dots precede it
SplitextRoot(name) ==
    LET dots == {i \in 1..Len(name) : name[i] = 46} IN
    IF dots = {} THEN name
    ELSE LET d == CHOOSE i \in dots : \A j \in dots : j <= i IN
         IF \E k \in 1..(d - 1) : name[k] # 46
         THEN SubSeq(name, 1, d - 1)
         ELSE name

\* Python's str '<': lexicographic by code point
StrLess(a, b) ==
    \E i \in 1..(Len(a) + 1) :
        /\ i <= Len(b)
        /\ SubSeq(a, 1, i - 1) = SubSeq(b, 1, i - 1)
        /\ (i = Len(a) + 1 \/ a[i] < b[i])

RECURSIVE SortedIgnoreCase(_)
\* mutant of Sorted: sorted(S, key=str.lower)
SortedIgnoreCase(S) ==
    IF S = {} THEN <<>>
    ELSE LET m == CHOOSE x \in S : \A y \in S : ~StrLess(Lower(y), Lower(x))
         IN <<m>> \o SortedIgnoreCase(S \ {m})

RECURSIVE Sorted(_)
\* sorted(S) for a set of distinct strings
Sorted(S) ==
    IF S = {} THEN <<>>
    ELSE LET m == CHOOSE x \in S : \A y \in S \ {x} : StrLess(x, y)
         IN <<m>> \o Sorted(S \ {m})

\* os.path.join(base, item)
PathJoin(base, item) == IF base = <<>> THEN item ELSE base \o <<47>> \o item

----------------------------------------------------------------------------
(* The docs tree *)

Fs(files, dirs, bad) == [files |-> files, dirs |-> dirs, bad |-> bad]

\* os.listdir(dir_path): the raw names directly below dir_path
ListDir(fs, dir_path) ==
    { q[Len(q)] : q \in { r \in fs.files \cup fs.dirs :
                            /\ Len(r) = Len(dir_path) + 1
                            /\ SubSeq(r, 1, Len(dir_path)) = dir_path } }

\* os.path.isdir
IsDir(fs, path) == path \in fs.dirs

----------------------------------------------------------------------------
(* generate_nav_and_index.py *)

format_title(name) == Title(Replace(Replace(name, 95, 32), 45, 32))

\* line 21: hidden / private entries
IsSkipped(item) == StartsWith(item, <<46>>) \/ StartsWith(item, <<95>>)

\* mutant of IsListedFile: the reserved name compared without lower()
IsListedFileCaseSensitive(item) == EndsWith(item, S_md) /\ item # S_index_md

\* mutant of IsListedFile: no test of the reserved name
IsListedFileAny(item) == EndsWith(item, S_md)

\* line 29: a listable document
IsListedFile(item) == EndsWith(item, S_md) /\ Lower(item) # S_index_md

\* nav node {title: value}; index link (title, value).  type is the Python
\* type of the value: "str" for a path, "list" for children.
Node(title, val, type) == [title |-> title, val |-> val, type |-> type]

ScanResult(raised, n, l) == [raised |-> raised, nav |-> n, index_links |-> l]

RECURSIVE scan_docs(_, _, _)
RECURSIVE scan_docs_loop(_, _, _, _, _, _)

\* the body of the for loop of scan_docs, from position i of the sorted items
scan_docs_loop(fs, dir_path, base, items, i, acc) ==
    IF i > Len(items) THEN acc
    ELSE
      LET item == items[i]
          full_path == Append(dir_path, item)
          rel_path == PathJoin(base, item)
      IN
      IF IsSkipped(item)
      THEN scan_docs_loop(fs, dir_path, base, items, i + 1, acc)
      ELSE IF IsDir(fs, full_path)
      THEN LET sub == scan_docs(fs, full_path, rel_path)
               title == format_title(item)
           IN IF sub.raised
              THEN ScanResult(TRUE, <<>>, <<>>)
              ELSE scan_docs_loop(fs, dir_path, base, items, i + 1,
                     ScanResult(FALSE,
                        Append(acc.nav, Node(title, sub.nav, "list")),
                        Append(acc.index_links,
                               Node(title, sub.index_links, "list"))))
      ELSE IF IsListedFile(item)
      THEN LET title == format_title(SplitextRoot(item))
               file_path == rel_path
           IN scan_docs_loop(fs, dir_path, base, items, i + 1,
                 ScanResult(FALSE,
                    Append(acc.nav, Node(title, file_path, "str")),
                    Append(acc.index_links, Node(title, file_path, "str"))))
      ELSE scan_docs_loop(fs, dir_path, base, items, i + 1, acc)

\* mutant of scan_docs: a directory that cannot be listed counts as empty
scan_docs_lenient(fs, dir_path, base) ==
    IF dir_path \in fs.bad
    THEN ScanResult(FALSE, <<>>, <<>>)
    ELSE scan_docs_loop(fs, dir_path, base, Sorted(ListDir(fs, dir_path)), 1,
                        ScanResult(FALSE, <<>>, <<>>))

scan_docs(fs, dir_path, base) ==
    IF dir_path \in fs.bad
    THEN ScanResult(TRUE, <<>>, <<>>)
    ELSE scan_docs_loop(fs, dir_path, base, Sorted(ListDir(fs, dir_path)), 1,
                        ScanResult(FALSE, <<>>, <<>>))

\* "#" * n
Hashes(n) == [i \in 1..n |-> 35]

RECURSIVE render_links_flat(_, _)
\* mutant of render_links: the recursion keeps indent_level
render_links_flat(links, indent_level) ==
    IF links = <<>> THEN <<>>
    ELSE LET l == Head(links) IN
         (IF l.type = "list"
          THEN <<(<<10>> \o Hashes(indent_level) \o <<32>> \o l.title \o <<10>>)>>
               \o render_links_flat(l.val, indent_level)
          ELSE <<(<<45, 32, 91>> \o l.title \o <<93, 40>> \o l.val \o <<41>>)>>)
         \o render_links_flat(Tail(links), indent_level)

RECURSIVE render_links(_, _)
\* the lines that render_links appends for links, in order
render_links(links, indent_level) ==
    IF links = <<>> THEN <<>>
    ELSE LET l == Head(links) IN
         (IF l.type = "list"
          THEN <<(<<10>> \o Hashes(indent_level) \o <<32>> \o l.title \o <<10>>)>>
               \o render_links(l.val, indent_level + 1)
          ELSE <<(<<45, 32, 91>> \o l.title \o <<93, 40>> \o l.val \o <<41>>)>>)
         \o render_links(Tail(links), indent_level)

RECURSIVE JoinLines(_)
\* '\n'.join(lines)
JoinLines(lines) ==
    IF lines = <<>> THEN <<>>
    ELSE IF Len(lines) = 1 THEN lines[1]
    ELSE lines[1] \o <<10>> \o JoinLines(Tail(lines))

generate_index_md(links, level) ==
    JoinLines(<<(S_doc_title \o <<10>>)>> \o render_links(links, level))

----------------------------------------------------------------------------
(* update_nav.py *)

title_case(name) == Title(Replace(SplitextRoot(name), 95, 32))

RECURSIVE RelPath(_)
\* os.path.relpath(full_path, DOCS_DIR) with separators normalised to '/'
RelPath(path) ==
    IF Len(path) = 1 THEN path[1]
    ELSE RelPath(SubSeq(path, 1, Len(path) - 1)) \o <<47>> \o path[Len(path)]

NavResult(raised, n) == [raised |-> raised, nav |-> n]

RECURSIVE build_nav(_, _)
RECURSIVE build_nav_loop(_, _, _, _, _)

\* the body of the for loop of build_nav, from position i of entries
build_nav_loop(fs, path, entries, i, acc) ==
    IF i > Len(entries) THEN acc
    ELSE
      LET entry == entries[i]
          full_path == Append(path, entry)
          rel_path == RelPath(full_path)
      IN
      IF IsDir(fs, full_path)
      THEN LET children == build_nav(fs, full_path) IN
           IF children.raised THEN NavResult(TRUE, <<>>)
           ELSE IF children.nav # <<>>
           THEN build_nav_loop(fs, path, entries, i + 1,
                   NavResult(FALSE, Append(acc.nav,
                       Node(Title(Replace(entry, 95, 32)), children.nav, "list"))))
           ELSE build_nav_loop(fs, path, entries, i + 1, acc)
      ELSE IF EndsWith(entry, S_md)
      THEN build_nav_loop(fs, path, entries, i + 1,
              NavResult(FALSE, Append(acc.nav,
                  Node(title_case(entry), rel_path, "str"))))
      ELSE build_nav_loop(fs, path, entries, i + 1, acc)

build_nav(fs, path) ==
    IF path \in fs.bad
    THEN NavResult(TRUE, <<>>)
    ELSE build_nav_loop(fs, path, Sorted(ListDir(fs, path)), 1,
                        NavResult(FALSE, <<>>))

----------------------------------------------------------------------------
(* mkdocs.yml: the file holds a YAML document, modelled by what it parses to *)

File(kind, doc) == [kind |-> kind, doc |-> doc]
Absent == File("absent", <<>>)
EmptyFile == File("empty", <<>>)

Item(k, v) == [key |-> k, value |-> v]

\* Python value: type is "dict", "list" or "NoneType"
PyVal(type, items) == [type |-> type, items |-> items]

\* yaml.safe_load(f)
safe_load(f) ==
    IF f.kind = "map" THEN [raised |-> FALSE, value |-> PyVal("dict", f.doc)]
    ELSE IF f.kind = "list" THEN [raised |-> FALSE, value |-> PyVal("list", <<>>)]
    ELSE IF f.kind = "empty" THEN [raised |-> FALSE, value |-> PyVal("NoneType", <<>>)]
    ELSE [raised |-> TRUE, value |-> PyVal("NoneType", <<>>)]

\* mutant of DictSet: the key is removed and set again, so it moves last
DictSetAppend(items, k, v) ==
    Append(SelectSeq(items, LAMBDA it : it.key # k), Item(k, v))

\* d[k] = v on a dict that keeps insertion order
DictSet(items, k, v) ==
    IF \E i \in 1..Len(items) : items[i].key = k
    THEN [i \in 1..Len(items) |->
             IF items[i].key = k THEN Item(k, v) ELSE items[i]]
    ELSE Append(items, Item(k, v))

\* yaml.dump(config, f, sort_keys=False): the document written to the file
yaml_dump(items) == File("map", items)

\* what the file holds when the dump stops after k top-level items
PartialDump(items, k) ==
    IF k = 0 THEN EmptyFile ELSE File("map", SubSeq(items, 1, k))

----------------------------------------------------------------------------
(* Initial states: a docs tree of at most MaxEntries entries, a mkdocs.yml *)

Tree(files, dirs) == [files |-> files, dirs |-> dirs]

\* the trees obtained from t by creating one more file or directory
Extend(t) ==
    { Tree(t.files \cup {Append(p, f)}, t.dirs) :
          p \in t.dirs \cup {<<>>}, f \in FileNames }
    \cup
    { Tree(t.files, t.dirs \cup {Append(p, d)}) :
          p \in t.dirs \cup {<<>>}, d \in DirNames }

RECURSIVE TreesUpTo(_)
TreesUpTo(n) ==
    IF n = 0 THEN {Tree({}, {})}
    ELSE LET prev == TreesUpTo(n - 1) IN prev \cup UNION {Extend(t) : t \in prev}

\* an existing nav value, [{"O": "o.md"}]
OldNav == <<Node(<<79>>, <<111, 46, 109, 100>>, "str")>>

\* contents mkdocs.yml may have before the first run
CfgInit ==
    { Absent, EmptyFile, File("malformed", <<>>), File("list", <<>>),
      File("map", <<Item("site_name", <<88>>)>>),
      File("map", <<Item("site_name", <<88>>), Item("nav", OldNav),
                    Item("theme", <<109>>)>>) }

NoConfig == PyVal("NoneType", <<>>)

InitWith(trees, cfgs, levels) ==
    /\ docsExists \in BOOLEAN
    /\ \E t \in (IF docsExists THEN trees ELSE {Tree({}, {})}) :
          /\ fsFiles = t.files
          /\ fsDirs = t.dirs
    /\ unreadable \in {{}} \cup {{d} : d \in fsDirs}
    /\ cfg \in cfgs
    /\ idx = IF <<S_index_md>> \in fsFiles THEN File("user", <<>>) ELSE Absent
    /\ prog = "none"
    /\ pc = "idle"
    /\ err = ""
    /\ nav = <<>>
    /\ index_links = <<>>
    /\ config = NoConfig
    /\ index_content = <<>>
    /\ levelArg \in levels
    /\ runs = 0
    /\ okRuns = 0
    /\ cfg0 = cfg
    /\ idx0 = idx
    /\ navOk = <<>>
    /\ idxOk = <<>>

\* the scripts are run from the project directory; level keeps its default
Init == InitWith(TreesUpTo(MaxRunEntries), CfgInit, {2})

\* the tree as the scripts see it: a missing docs/ makes its listing raise
CurFs == Fs(fsFiles, fsDirs, IF docsExists THEN unreadable ELSE {<<>>})

fsVars == <<docsExists, fsFiles, fsDirs, unreadable>>
histVars == <<runs, okRuns, cfg0, idx0, navOk, idxOk>>
localVars == <<nav, index_links, config, index_content, levelArg>>

\* the run raises at stage s
Raise(s) == pc' = "failed" /\ err' = s

\* a script is started: python generate_nav_and_index.py / python update_nav.py
Start(p, first) ==
    /\ pc \in {"idle", "done", "failed"}
    /\ runs < MaxRuns
    /\ prog' = p
    /\ pc' = first
    /\ err' = ""
    /\ nav' = <<>>
    /\ index_links' = <<>>
    /\ config' = NoConfig
    /\ index_content' = <<>>
    /\ runs' = runs + 1
    /\ cfg0' = cfg
    /\ idx0' = idx
    /\ UNCHANGED <<fsVars, cfg, idx, levelArg, okRuns, navOk, idxOk>>

StartMain == Start("gen", "scan")
StartUpdate == Start("upd", "upd_load")

(* generate_nav_and_index.py: main *)

\* line 69: nav, index_links = scan_docs(DOCS_DIR)
ScanDocs ==
    /\ prog = "gen" /\ pc = "scan"
    /\ LET r == scan_docs(CurFs, <<>>, <<>>) IN
       IF r.raised
       THEN Raise("scan") /\ UNCHANGED <<nav, index_links>>
       ELSE nav' = r.nav /\ index_links' = r.index_links
            /\ pc' = "load" /\ err' = err
    /\ UNCHANGED <<fsVars, cfg, idx, prog, config, index_content, levelArg, histVars>>

\* lines 54-60 of update_mkdocs_yml: load the document, set config['nav']
LoadConfig ==
    /\ prog = "gen" /\ pc = "load"
    /\ IF cfg.kind = "absent"
       THEN config' = PyVal("dict", DictSet(<<>>, "nav", nav))
            /\ pc' = "open" /\ err' = err
       ELSE LET l == safe_load(cfg) IN
            IF l.raised THEN Raise("load") /\ UNCHANGED config
            ELSE IF l.value.type = "NoneType"
            THEN config' = PyVal("dict", DictSet(<<>>, "nav", nav))
                 /\ pc' = "open" /\ err' = err
            ELSE IF l.value.type = "dict"
            THEN config' = PyVal("dict", DictSet(l.value.items, "nav", nav))
                 /\ pc' = "open" /\ err' = err
            ELSE Raise("merge") /\ config' = l.value
    /\ UNCHANGED <<fsVars, cfg, idx, prog, nav, index_links, index_content,
                   levelArg, histVars>>

\* open(<config file>, 'w'): the file is truncated, unless the open raises
OpenForWrite(next) ==
    /\ \/ cfg' = EmptyFile /\ pc' = next /\ err' = err
       \/ Raise("open") /\ UNCHANGED cfg
    /\ UNCHANGED <<fsVars, idx, prog, localVars, histVars>>

\* yaml.dump(config, f, sort_keys=False): the whole document is written,
\* unless the write raises after k top-level items reached the file
DumpToFile(next) ==
    /\ \/ cfg' = yaml_dump(config.items) /\ pc' = next /\ err' = err
       \/ /\ \E k \in 0..(Len(config.items) - 1) :
                cfg' = PartialDump(config.items, k)
          /\ Raise("dump")
    /\ UNCHANGED <<fsVars, idx, prog, localVars, histVars>>

\* line 62
OpenConfig == prog = "gen" /\ pc = "open" /\ OpenForWrite("dump")

\* line 63
DumpConfig == prog = "gen" /\ pc = "dump" /\ DumpToFile("openidx")

\* lines 73-75: render the index, makedirs, open(INDEX_FILE, 'w')
OpenIndex ==
    /\ prog = "gen" /\ pc = "openidx"
    /\ index_content' = generate_index_md(index_links, levelArg)
    /\ \/ /\ fsFiles' = fsFiles \cup {<<S_index_md>>}
          /\ idx' = EmptyFile
          /\ pc' = "writeidx" /\ err' = err
       \/ /\ Raise("openidx")
          /\ UNCHANGED <<fsFiles, idx>>
    /\ UNCHANGED <<docsExists, fsDirs, unreadable, cfg, prog, nav, index_links,
                   config, levelArg, histVars>>

\* line 76: f.write(index_content)
WriteIndex ==
    /\ prog = "gen" /\ pc = "writeidx"
    /\ \/ /\ idx' = File("text", index_content)
          /\ pc' = "done" /\ err' = err
          /\ okRuns' = okRuns + 1
          /\ navOk' = IF okRuns = 0 THEN nav ELSE navOk
          /\ idxOk' = IF okRuns = 0 THEN index_content ELSE idxOk
       \/ /\ Raise("writeidx")
          /\ UNCHANGED <<idx, okRuns, navOk, idxOk>>
    /\ UNCHANGED <<fsVars, cfg, prog, localVars, runs, cfg0, idx0>>

(* update_nav.py: update_mkdocs_yaml *)

\* lines 29-30: open(CONFIG_FILE, 'r'), yaml.safe_load
UpdLoad ==
    /\ prog = "upd" /\ pc = "upd_load"
    /\ LET l == safe_load(cfg) IN
       IF cfg.kind = "absent" \/ l.raised
       THEN Raise("load") /\ UNCHANGED config
       ELSE config' = l.value /\ pc' = "upd_build" /\ err' = err
    /\ UNCHANGED <<fsVars, cfg, idx, prog, nav, index_links, index_content,
                   levelArg, histVars>>

\* line 32: config['nav'] = build_nav(DOCS_DIR)
UpdBuildNav ==
    /\ prog = "upd" /\ pc = "upd_build"
    /\ LET r == build_nav(CurFs, <<>>) IN
       IF r.raised
       THEN Raise("scan") /\ UNCHANGED <<nav, config>>
       ELSE /\ nav' = r.nav
            /\ IF config.type = "dict"
               THEN config' = PyVal("dict", DictSet(config.items, "nav", r.nav))
                    /\ pc' = "upd_open" /\ err' = err
               ELSE Raise("merge") /\ UNCHANGED config
    /\ UNCHANGED <<fsVars, cfg, idx, prog, index_links, index_content, levelArg,
                   histVars>>

\* line 34
UpdOpenConfig == prog = "upd" /\ pc = "upd_open" /\ OpenForWrite("upd_dump")

\* line 35
UpdDumpConfig == prog = "upd" /\ pc = "upd_dump" /\ DumpToFile("done")

Next ==
    \/ StartMain
    \/ ScanDocs
    \/ LoadConfig
    \/ OpenConfig
    \/ DumpConfig
    \/ OpenIndex
    \/ WriteIndex
    \/ StartUpdate
    \/ UpdLoad
    \/ UpdBuildNav
    \/ UpdOpenConfig
    \/ UpdDumpConfig

Spec == Init /\ [][Next]_vars

----------------------------------------------------------------------------
(* The scans and the renderer applied to every docs tree of MaxEntries     *)
(* entries                                                                 *)

InitScan == InitWith(TreesUpTo(MaxEntries), {Absent}, {1, 2, 3})

scanFrame == <<fsVars, cfg, idx, err, config, histVars, levelArg>>

\* scan_docs(DOCS_DIR)
ApplyScanDocs ==
    /\ pc = "idle"
    /\ prog' = "gen"
    /\ LET r == scan_docs(CurFs, <<>>, <<>>) IN
       /\ nav' = r.nav
       /\ index_links' = r.index_links
       /\ pc' = IF r.raised THEN "raised" ELSE "scanned"
    /\ UNCHANGED <<scanFrame, index_content>>

\* build_nav(DOCS_DIR)
ApplyBuildNav ==
    /\ pc = "idle"
    /\ prog' = "upd"
    /\ LET r == build_nav(CurFs, <<>>) IN
       /\ nav' = r.nav
       /\ pc' = IF r.raised THEN "raised" ELSE "built"
    /\ UNCHANGED <<scanFrame, index_links, index_content>>

\* generate_index_md(index_links, level)
ApplyGenerateIndex ==
    /\ pc = "scanned"
    /\ index_content' = generate_index_md(index_links, levelArg)
    /\ pc' = "rendered"
    /\ UNCHANGED <<scanFrame, prog, nav, index_links>>

NextScan == ApplyScanDocs \/ ApplyBuildNav \/ ApplyGenerateIndex

SpecScan == InitScan /\ [][NextScan]_vars

----------------------------------------------------------------------------
(* Vocabulary of the properties *)

\* a raw name of the hidden / private convention
HiddenName(name) == name[1] = 46 \/ name[1] = 95
\* a path that is, or lies below, a hidden / private entry
HiddenPath(path) == \E i \in 1..Len(path) : HiddenName(path[i])

RECURSIVE LeafSeq(_)
\* the paths of the leaves of a node list, depth first
LeafSeq(L) ==
    IF L = <<>> THEN <<>>
    ELSE (IF Head(L).type = "list" THEN LeafSeq(Head(L).val) ELSE <<Head(L).val>>)
         \o LeafSeq(Tail(L))

RECURSIVE GroupSeq(_)
\* the titles of the groups of a node list, depth first, parents first
GroupSeq(L) ==
    IF L = <<>> THEN <<>>
    ELSE (IF Head(L).type = "list"
          THEN <<Head(L).title>> \o GroupSeq(Head(L).val) ELSE <<>>)
         \o GroupSeq(Tail(L))

Range(q) == {q[i] : i \in 1..Len(q)}
LeafVals(L) == Range(LeafSeq(L))

\* the value under 'nav' of the document a file holds
NavValue(f) == (f.doc[CHOOSE i \in 1..Len(f.doc) : f.doc[i].key = "nav"]).value
HasNav(f) == f.kind = "map" /\ \E i \in 1..Len(f.doc) : f.doc[i].key = "nav"

RECURSIVE SplitLines(_)
\* text.split('\n')
SplitLines(text) ==
    IF \A i \in 1..Len(text) : text[i] # 10 THEN <<text>>
    ELSE LET n == CHOOSE i \in 1..Len(text) :
                     text[i] = 10 /\ \A j \in 1..(i - 1) : text[j] # 10
         IN <<SubSeq(text, 1, n - 1)>> \o SplitLines(SubSeq(text, n + 1, Len(text)))

IsLinkLine(line) == Len(line) >= 3 /\ SubSeq(line, 1, 3) = <<45, 32, 91>>
IsHeadingLine(line) == Len(line) >= 1 /\ line[1] = 35
NonBlank(line) == line # <<>>

\* the path between "](" and the closing ")" of a link line
LinkTarget(line) ==
    LET j == CHOOSE k \in 1..(Len(line) - 1) :
                 /\ line[k] = 93 /\ line[k + 1] = 40
                 /\ \A m \in (k + 1)..(Len(line) - 1) :
                        ~(line[m] = 93 /\ line[m + 1] = 40)
    IN SubSeq(line, j + 2, Len(line) - 1)

\* the title of a heading line: what follows its '#' run and one space
HeadingTitle(line) ==
    LET n == CHOOSE k \in 1..Len(line) :
                 line[k] # 35 /\ \A m \in 1..(k - 1) : line[m] = 35
    IN SubSeq(line, n + 1, Len(line))

MapSeq(q, Op(_)) == [i \in 1..Len(q) |-> Op(q[i])]

LinkTargets(text) == MapSeq(SelectSeq(SplitLines(text), IsLinkLine), LinkTarget)
\* the headings below the first line (the document title)
HeadingTitles(text) ==
    MapSeq(SelectSeq(Tail(SplitLines(text)), IsHeadingLine), HeadingTitle)

\* the last component of a '/'-separated path is index.md in some casing
IsIndexName(p) ==
    \/ Lower(p) = S_index_md
    \/ EndsWith(Lower(p), <<47>> \o S_index_md)

Scanned == pc \in {"scanned", "built", "rendered"}

\* this run of main() got past yaml.dump
MainWroteConfig ==
    /\ prog = "gen"
    /\ \/ pc \in {"openidx", "writeidx", "done"}
       \/ pc = "failed" /\ err \in {"openidx", "writeidx"}

\* this run of either script got past yaml.dump
ConfigWritten == MainWroteConfig \/ (prog = "upd" /\ pc = "done")

----------------------------------------------------------------------------
(* Properties of the scans and of the renderer, checked under SpecScan *)

\* the docs tree without its hidden / private entries and what lies below them
VisibleFs ==
    Fs({q \in fsFiles : ~HiddenPath(q)}, {q \in fsDirs : ~HiddenPath(q)},
       {q \in CurFs.bad : ~HiddenPath(q)})

\* C1: Filtering invariant.  After a scan (scan_docs or build_nav) no leaf of
\* the nav list or of the index-link list is the path of an entry that is, or
\* lies below, an entry whose raw name starts with '.' or '_', and the outputs
\* are those the scan gives on the tree with these entries removed (so no
\* group comes from them either).
FilteringInvariant ==
    Scanned =>
      /\ \A q \in fsFiles \cup fsDirs :
            HiddenPath(q) => RelPath(q) \notin LeafVals(nav) \cup LeafVals(index_links)
      /\ prog = "gen" =>
            /\ nav = scan_docs(VisibleFs, <<>>, <<>>).nav
            /\ index_links = scan_docs(VisibleFs, <<>>, <<>>).index_links
      /\ prog = "upd" => nav = build_nav(VisibleFs, <<>>).nav

RECURSIVE EveryGroupHasLeaf(_)
EveryGroupHasLeaf(L) ==
    \A i \in 1..Len(L) :
        L[i].type = "list" => LeafSeq(L[i].val) # <<>> /\ EveryGroupHasLeaf(L[i].val)

\* C2: Empty-subtree elision.  After a scan every Group/Section node, at any
\* depth of the nav list and of the index-link list, has a listed document
\* somewhere below it: a directory with no listable .md file below it yields
\* no node, so no group with an empty children list appears.
EmptySubtreeElision ==
    Scanned => EveryGroupHasLeaf(nav) /\ EveryGroupHasLeaf(index_links)

\* code-point order of raw names, stated on the characters
CodepointLess(a, b) ==
    \/ /\ Len(a) < Len(b)
       /\ \A i \in 1..Len(a) : a[i] = b[i]
    \/ \E i \in 1..Len(a) :
          /\ i <= Len(b)
          /\ a[i] < b[i]
          /\ \A j \in 1..(i - 1) : a[j] = b[j]

RECURSIVE OrderedFrom(_, _)
\* the nodes of L come, in this order, from entries of directory p taken in
\* strictly ascending code-point order of their raw names: a leaf from a file
\* (it carries the file's path), a group from a subdirectory (its children
\* come from that subdirectory in the same way)
OrderedFrom(L, p) ==
    \E s \in [1..Len(L) -> ListDir(CurFs, p)] :
        /\ \A i \in 1..(Len(L) - 1) : CodepointLess(s[i], s[i + 1])
        /\ \A i \in 1..Len(L) :
              IF L[i].type = "str"
              THEN Append(p, s[i]) \in fsFiles /\ L[i].val = RelPath(Append(p, s[i]))
              ELSE Append(p, s[i]) \in fsDirs /\ OrderedFrom(L[i].val, Append(p, s[i]))

\* C4: Order preservation.  At every level of nesting the nodes of the nav
\* list and of the index-link list appear in ascending code-point order of
\* the raw names of the entries they come from, files and subdirectories
\* interleaved; the rendered index lists the links and the section headings
\* in exactly the depth-first order of the index-link list.
OrderPreservation ==
    /\ Scanned => OrderedFrom(nav, <<>>)
    /\ (Scanned /\ prog = "gen") => OrderedFrom(index_links, <<>>)
    /\ pc = "rendered" =>
          /\ LinkTargets(index_content) = LeafSeq(index_links)
          /\ HeadingTitles(index_content) = GroupSeq(index_links)

\* C4 witness: a scan whose root level interleaves a file, a directory and a
\* file (B.md, T-u, a.md), rendered.
OrderPreservationWitness ==
    /\ pc = "rendered"
    /\ \E i \in 1..(Len(index_links) - 2) :
          /\ index_links[i].type = "str"
          /\ index_links[i + 1].type = "list"
          /\ index_links[i + 2].type = "str"

RECURSIVE ExpectedLines(_, _)
\* the non-blank lines the sections and entries of L give at nesting depth d
ExpectedLines(L, d) ==
    IF L = <<>> THEN <<>>
    ELSE (IF Head(L).type = "list"
          THEN <<([i \in 1..(levelArg + d) |-> 35] \o <<32>> \o Head(L).title)>>
               \o ExpectedLines(Head(L).val, d + 1)
          ELSE <<(<<45, 32, 91>> \o Head(L).title \o <<93, 40>> \o Head(L).val
                  \o <<41>>)>>)
         \o ExpectedLines(Tail(L), d)

\* C10: Index rendering.  The document is the title line
\* '# Documentation Index', emitted once as the first line, followed, blank
\* lines aside, by exactly: for a Section nested d levels deep a heading of
\* level + d '#' characters, a space and its title, then its children
\* rendered one level deeper (whatever was rendered before it), and for an
\* Entry the one line '- [title](path)'.
IndexRendering ==
    pc = "rendered" =>
      LET lines == SplitLines(index_content) IN
      /\ lines[1] = S_doc_title
      /\ SelectSeq(Tail(lines), NonBlank) = ExpectedLines(index_links, 0)

\* C10 witness: a rendered tree with a section nested in a section that has
\* an entry, and a later sibling, at the default level.
IndexRenderingWitness ==
    /\ pc = "rendered" /\ levelArg = 2
    /\ \E i \in 1..Len(index_links) :
          /\ index_links[i].type = "list"
          /\ \E j \in 1..Len(index_links[i].val) :
                /\ index_links[i].val[j].type = "list"
                /\ \E k \in 1..Len(index_links[i].val[j].val) :
                      index_links[i].val[j].val[k].type = "str"

----------------------------------------------------------------------------
(* Properties of the runs of the scripts, checked under Spec *)

\* C3: Self-exclusion.  In every run of main(), also one that scans the
\* docs/index.md an earlier run wrote, no leaf of the scanned lists, of the
\* nav main() wrote to mkdocs.yml or link of the index document main() wrote
\* is a file whose lower-cased name is 'index.md', at any depth.
SelfExclusion ==
    /\ prog = "gen" =>
          \A v \in LeafVals(nav) \cup LeafVals(index_links) : ~IsIndexName(v)
    /\ (MainWroteConfig /\ HasNav(cfg)) =>
          \A v \in LeafVals(NavValue(cfg)) : ~IsIndexName(v)
    /\ idx.kind = "text" =>
          \A v \in Range(LinkTargets(idx.doc)) : ~IsIndexName(v)

\* C3 witness: a second complete run of main() over a tree that holds the
\* index.md of the first run and an upper-case INDEX.md in a subdirectory.
SelfExclusionWitness ==
    /\ prog = "gen" /\ pc = "done" /\ okRuns >= 2
    /\ <<S_index_md>> \in fsFiles
    /\ \E q \in fsFiles :
          Len(q) = 2 /\ ~HiddenPath(q) /\ q[2] # S_index_md
          /\ Lower(q[2]) = S_index_md

\* the items of a document other than 'nav', in order
OtherItems(doc) == SelectSeq(doc, LAMBDA it : it.key # "nav")
NavPosition(doc) == CHOOSE i \in 1..Len(doc) : doc[i].key = "nav"

\* C5: Non-nav key preservation.  When mkdocs.yml held a mapping at the
\* start of the run and the run got past the dump, the file holds a mapping
\* with every other top-level key, value and relative order unchanged and a
\* 'nav' key equal to the scanned nav, at its previous position if it
\* existed and last if it did not.
NonNavKeyPreservation ==
    (ConfigWritten /\ cfg0.kind = "map") =>
      /\ cfg.kind = "map"
      /\ OtherItems(cfg.doc) = OtherItems(cfg0.doc)
      /\ HasNav(cfg)
      /\ NavValue(cfg) = nav
      /\ Cardinality({i \in 1..Len(cfg.doc) : cfg.doc[i].key = "nav"}) = 1
      /\ NavPosition(cfg.doc) =
            IF HasNav(cfg0) THEN NavPosition(cfg0.doc) ELSE Len(cfg0.doc) + 1

\* C5 witness: a completed dump over a document that had 'nav' between two
\* other keys, with a non-empty scanned nav.
NonNavKeyPreservationWitness ==
    /\ ConfigWritten
    /\ cfg0.kind = "map" /\ Len(cfg0.doc) = 3 /\ HasNav(cfg0)
    /\ nav # <<>>

\* C6: Config write atomicity.  In every state during or after a run
\* mkdocs.yml holds its content from the start of the run or the complete
\* merged document, and a malformed file is never modified.
ConfigWriteAtomicity ==
    runs >= 1 =>
      /\ \/ cfg = cfg0
         \/ config.type = "dict" /\ cfg = yaml_dump(config.items)
      /\ cfg0.kind = "malformed" => cfg = cfg0

\* the scan of main() cannot succeed: docs/ is missing, or a directory the
\* scan lists is unreadable
ScanMustFail == ~docsExists \/ \E d \in unreadable : ~HiddenPath(d)

\* C7: Abort ordering of main().  A run whose scan fails changes neither
\* mkdocs.yml nor docs/index.md and goes no further; a run that fails in the
\* config merge/write leaves docs/index.md alone; docs/index.md is touched
\* only in a run whose config write completed.
AbortOrdering ==
    prog = "gen" =>
      /\ ScanMustFail => cfg = cfg0 /\ idx = idx0 /\ pc \in {"scan", "failed"}
      /\ err = "scan" => cfg = cfg0 /\ idx = idx0
      /\ err \in {"load", "merge", "open", "dump"} => idx = idx0
      /\ (idx # idx0 \/ pc \in {"writeidx", "done"}) =>
            /\ config.type = "dict"
            /\ cfg = yaml_dump(config.items)
            /\ NavValue(cfg) = nav

\* C7 witness: main() has failed in its scan, on an unreadable subdirectory,
\* with a well-formed mkdocs.yml in place.
AbortOrderingWitness ==
    /\ prog = "gen" /\ pc = "failed" /\ err = "scan"
    /\ docsExists /\ unreadable # {}
    /\ cfg0.kind = "map"

\* C8: Idempotence.  Every complete run of main() after the first complete
\* one leaves under 'nav' the nav value, and in docs/index.md the document,
\* that the first complete run left.
Idempotence ==
    (prog = "gen" /\ pc = "done" /\ okRuns >= 2) =>
      /\ HasNav(cfg)
      /\ NavValue(cfg) = navOk
      /\ idx = File("text", idxOk)

\* C8 witness: a second complete run of main() on a tree with a listed
\* document, started without a docs/index.md.
IdempotenceWitness ==
    /\ prog = "gen" /\ pc = "done" /\ okRuns >= 2
    /\ LeafSeq(navOk) # <<>>
    /\ \E q \in fsFiles : Len(q) = 2 /\ ~HiddenPath(q)

\* C9: Missing or empty configuration.  When mkdocs.yml was missing or empty
\* at the start of a run, of either script, the run does not fail in loading
\* or merging the configuration, and once past the dump the file holds a
\* mapping whose only key is 'nav', with the scanned nav.
MissingConfigIsNoError ==
    (runs >= 1 /\ cfg0.kind \in {"absent", "empty"}) =>
      /\ err \notin {"load", "merge"}
      /\ ConfigWritten => cfg = File("map", <<Item("nav", nav)>>)

====
